---- MODULE Spec2Model ----
(***************************************************************************)
(* Eligibility checker backend: the request-validation, age computation,   *)
(* persistence and aggregation pipeline of backend/src/server.ts, with the *)
(* users table of database/init.sql and the error-handling middleware.     *)
(*                                                                         *)
(* Instants are whole hours since 0000-03-01T00:00Z.  A name is a sequence *)
(* of one-character strings.  A decimal number with two places (the        *)
(* averageAge) is carried in hundredths.                                   *)
(***************************************************************************)
EXTENDS Integers, Sequences, FiniteSets, TLC

VARIABLES
    users,          \* rows of the users table, in insertion order
    users_id_seq,   \* last value handed out by the SERIAL sequence of users.id
    now,            \* the current instant
    tz,             \* zone offset (hours) of the server process's local time
    reqs,           \* the handler invocation of each request, in arrival order
    ageCall,        \* the last call of calculateAge made on its own: argument, instant, outcome
    limiterStore,   \* the rate limiter's store: for each IP, the window it is in and its hits
    eligibilityComponent,  \* the form page of the browser: its fields and its subscriptions
    statsComponent  \* the statistics page of the browser: its fields, requests, timers, charts

vars == <<users, users_id_seq, now, tz, reqs, ageCall, limiterStore,
          eligibilityComponent, statsComponent>>

-----------------------------------------------------------------------------
(* Bounds of the model *)

MaxCalls == 3
MaxStatsCalls == 4
MaxProbeCalls == 2
MaxValidateCalls == 1
MaxLimitCalls == 2
MaxErrorCalls == 2
MaxWindows == 1
MaxTicks == 1
MaxDays == 7
TickHours == 12

(* Program constants *)

NameMin == 1
NameMax == 50
MinAge == 18
AgeMin == 0
AgeMax == 150
RateLimitMax == 100

-----------------------------------------------------------------------------
(* Calendar arithmetic behind Date.getFullYear/getMonth/getDate and the    *)
(* parsing of an ISO date string (proleptic Gregorian calendar).           *)

DaysFromCivil(y, m, d) ==
    LET yy  == IF m <= 2 THEN y - 1 ELSE y
        era == yy \div 400
        yoe == yy - era * 400
        mp  == IF m > 2 THEN m - 3 ELSE m + 9
        doy == (153 * mp + 2) \div 5 + d - 1
        doe == yoe * 365 + yoe \div 4 - yoe \div 100 + doy
    IN  era * 146097 + doe

CivilFromDays(z) ==
    LET era == z \div 146097
        doe == z - era * 146097
        yoe == (doe - doe \div 1460 + doe \div 36524 - doe \div 146096) \div 365
        doy == doe - (365 * yoe + yoe \div 4 - yoe \div 100)
        mp  == (5 * doy + 2) \div 153
        d   == doy - (153 * mp + 2) \div 5 + 1
        m   == IF mp < 10 THEN mp + 3 ELSE mp - 9
        y   == yoe + era * 400 + (IF m <= 2 THEN 1 ELSE 0)
    IN  [y |-> y, m |-> m, d |-> d]

\* new Date('YYYY-MM-DD'): a date-only ISO string is midnight UTC of that day.
DateParse(iso) == DaysFromCivil(iso.y, iso.m, iso.d) * 24

\* The local calendar date of an instant, as getFullYear/getMonth/getDate read it.
LocalDate(t) == CivilFromDays((t + tz) \div 24)

-----------------------------------------------------------------------------
(* Characters and strings *)

Letters == {"J", "o", "a", "b"}
Whitespace == {" ", "\t"}

\* the character class [a-zA-Z\s'-]
InNameClass(c) == c \in Letters \/ c \in Whitespace \/ c = "'" \/ c = "-"

\* /^[a-zA-Z\s'-]+$/
MatchesNamePattern(s) == Len(s) >= 1 /\ \A i \in 1..Len(s) : InNameClass(s[i])

\* String.prototype.trim
trim(s) ==
    IF \A i \in 1..Len(s) : s[i] \in Whitespace THEN <<>>
    ELSE LET first == CHOOSE i \in 1..Len(s) :
                         /\ s[i] \notin Whitespace
                         /\ \A j \in 1..(i - 1) : s[j] \in Whitespace
             last  == CHOOSE i \in 1..Len(s) :
                         /\ s[i] \notin Whitespace
                         /\ \A j \in (i + 1)..Len(s) : s[j] \in Whitespace
         IN  SubSeq(s, first, last)

Rep(c, n) == [i \in 1..n |-> c]

Digits == <<"0", "1", "2", "3", "4", "5", "6", "7", "8", "9">>

DigitVal(c) == (CHOOSE k \in 1..10 : Digits[k] = c) - 1

\* the decimal text PostgreSQL sends for a bigint
RECURSIVE ToText(_)
ToText(n) == IF n < 10 THEN <<Digits[n + 1]>>
             ELSE ToText(n \div 10) \o <<Digits[(n % 10) + 1]>>

\* the text of a numeric rounded to two places, from its value in hundredths
NumericText(h) ==
    ToText(h \div 100) \o <<".">> \o <<Digits[((h % 100) \div 10) + 1], Digits[(h % 10) + 1]>>

\* parseInt of a decimal text
RECURSIVE parseInt(_)
parseInt(t) == IF Len(t) = 0 THEN 0
               ELSE parseInt(SubSeq(t, 1, Len(t) - 1)) * 10 + DigitVal(t[Len(t)])

-----------------------------------------------------------------------------
(* Request validation: userSchema and Joi's validate() *)

Undefined == [t |-> "undefined", v |-> <<>>]
Str(s) == [t |-> "string", v |-> s]
Num == [t |-> "number", v |-> <<>>]

\* a dateOfBirth string: an ISO date YYYY-MM-DD, or text that is no ISO date
IsoDate(y, m, d) == [t |-> "string", iso |-> TRUE, y |-> y, m |-> m, d |-> d]
NotADate == [t |-> "string", iso |-> FALSE, y |-> 0, m |-> 0, d |-> 0]
NoDate == [t |-> "undefined", iso |-> FALSE, y |-> 0, m |-> 0, d |-> 0]

\* The errors Joi finds in a name value, in rule order: presence, type, the
\* empty string, then min, max and pattern. msg holds the key's messages.
NameErrors(x, msg) ==
    IF x.t = "undefined" THEN <<msg.required>>
    ELSE IF x.t # "string" THEN <<msg.base>>
    ELSE IF x.v = <<>> THEN <<msg.empty>>
    ELSE (IF Len(x.v) < NameMin THEN <<msg.min>> ELSE <<>>)
      \o (IF Len(x.v) > NameMax THEN <<msg.max>> ELSE <<>>)
      \o (IF ~MatchesNamePattern(x.v) THEN <<msg.pattern>> ELSE <<>>)

firstNameErrors(x) ==
    NameErrors(x, [required |-> "\"firstName\" is required",
                   base     |-> "\"firstName\" must be a string",
                   empty    |-> "\"firstName\" is not allowed to be empty",
                   min      |-> "First name must be at least 1 character long",
                   max      |-> "First name cannot exceed 50 characters",
                   pattern  |-> "First name must contain only letters, spaces, hyphens, and apostrophes"])

lastNameErrors(x) ==
    NameErrors(x, [required |-> "\"lastName\" is required",
                   base     |-> "\"lastName\" must be a string",
                   empty    |-> "\"lastName\" is not allowed to be empty",
                   min      |-> "Last name must be at least 1 character long",
                   max      |-> "Last name cannot exceed 50 characters",
                   pattern  |-> "Last name must contain only letters, spaces, hyphens, and apostrophes"])

\* dateOfBirthErrors without the max('now') rule
dateOfBirthErrors_NoMax(x) ==
    IF x.t = "undefined" THEN <<"\"dateOfBirth\" is required">>
    ELSE IF ~x.iso THEN <<"\"dateOfBirth\" must be in ISO 8601 date format">>
    ELSE <<>>

\* Joi.date().iso().max('now').required()
dateOfBirthErrors(x) ==
    IF x.t = "undefined" THEN <<"\"dateOfBirth\" is required">>
    ELSE IF ~x.iso THEN <<"\"dateOfBirth\" must be in ISO 8601 date format">>
    ELSE IF DateParse(x) > now THEN <<"Date of birth cannot be in the future">>
    ELSE <<>>

\* every rule the body violates, keys in schema order
userSchemaErrors(body) ==
    firstNameErrors(body.firstName) \o lastNameErrors(body.lastName)
        \o dateOfBirthErrors(body.dateOfBirth)

\* userSchema.validate(req.body): no options are passed, so Joi's default
\* abortEarly applies and validation stops at the first error it meets.
\* The value keeps the names as sent and carries dateOfBirth as a Date.
validate(body) ==
    LET errs == userSchemaErrors(body)
    IN  IF errs # <<>>
        THEN [error |-> TRUE, details |-> <<Head(errs)>>,
              value |-> [firstName |-> <<>>, lastName |-> <<>>, dateOfBirth |-> 0]]
        ELSE [error |-> FALSE, details |-> <<>>,
              value |-> [firstName |-> body.firstName.v, lastName |-> body.lastName.v,
                         dateOfBirth |-> DateParse(body.dateOfBirth)]]

-----------------------------------------------------------------------------
(* Age and eligibility *)

\* calculateAge with the day comparison written <= instead of <
calculateAge_DayOff(dateOfBirth) ==
    LET today     == LocalDate(now)
        birthDate == LocalDate(dateOfBirth)
        age       == today.y - birthDate.y
        monthDiff == today.m - birthDate.m
    IN  IF monthDiff < 0 \/ (monthDiff = 0 /\ today.d <= birthDate.d)
        THEN age - 1
        ELSE age

\* calculateAge: whole years between the local calendar dates of the birth
\* instant and of the current instant
calculateAge(dateOfBirth) ==
    LET today     == LocalDate(now)
        birthDate == LocalDate(dateOfBirth)
        age       == today.y - birthDate.y
        monthDiff == today.m - birthDate.m
    IN  IF monthDiff < 0 \/ (monthDiff = 0 /\ today.d < birthDate.d)
        THEN age - 1
        ELSE age

\* The outcome of calculateAge called with any string. new Date(text) of a
\* text that is no date is Invalid Date: its getters give NaN, the
\* subtractions give NaN, both comparisons are false and NaN is returned.
\* No statement of the function throws, whatever the argument.
CalculateAgeCall(dateOfBirth) ==
    [threw   |-> FALSE,
     message |-> "",
     value   |-> IF dateOfBirth.iso
                 THEN [nan |-> FALSE, v |-> calculateAge(DateParse(dateOfBirth))]
                 ELSE [nan |-> TRUE, v |-> 0]]

\* no call of calculateAge on its own yet
NoCall == [dateOfBirth |-> NoDate, asOf |-> 0,
           outcome |-> [threw |-> FALSE, message |-> "", value |-> [nan |-> TRUE, v |-> 0]]]

\* the threshold comparison written > instead of >=
isEligible_Strict(age) == age > MinAge

\* const isEligible = age >= 18
isEligible(age) == age >= MinAge

-----------------------------------------------------------------------------
(* The users table and the two statements the server runs on it *)

\* the constraints of CREATE TABLE users: VARCHAR(50) names, the age CHECK
ConstraintViolation(row) ==
    IF Len(row.first_name) > NameMax \/ Len(row.last_name) > NameMax THEN "22001"
    ELSE IF ~(row.age >= AgeMin /\ row.age <= AgeMax) THEN "23514"
    ELSE ""

\* the parameters $1..$5 of the INSERT; a Date parameter is sent as the
\* process-local date and time, of which the DATE column keeps the date
InsertParams(value, age, eligible) ==
    [first_name    |-> trim(value.firstName),
     last_name     |-> trim(value.lastName),
     date_of_birth |-> LocalDate(value.dateOfBirth),
     age           |-> age,
     is_eligible   |-> eligible]

\* the row with its id taken as one more than the number of rows held
NewRow_Counted(id, p) ==
    [id |-> Len(users) + 1, first_name |-> p.first_name, last_name |-> p.last_name,
     date_of_birth |-> p.date_of_birth, age |-> p.age,
     is_eligible |-> p.is_eligible, created_at |-> now]

\* the row INSERT ... VALUES ($1, $2, $3, $4, $5, NOW()) builds
NewRow(id, p) ==
    [id |-> id, first_name |-> p.first_name, last_name |-> p.last_name,
     date_of_birth |-> p.date_of_birth, age |-> p.age,
     is_eligible |-> p.is_eligible, created_at |-> now]

RECURSIVE SumAge(_)
SumAge(rows) == IF rows = <<>> THEN 0 ELSE rows[1].age + SumAge(Tail(rows))

CountWhere(rows, flag) ==
    Cardinality({i \in 1..Len(rows) : rows[i].is_eligible = flag})

\* the average taken over the rows but the newest
RoundAvg_Stale(rows) ==
    IF Len(rows) = 1 THEN 100 * SumAge(rows)
    ELSE (2 * 100 * SumAge(SubSeq(rows, 1, Len(rows) - 1)) + (Len(rows) - 1))
            \div (2 * (Len(rows) - 1))

\* ROUND(AVG(age), 2) in hundredths, halves rounded away from zero
RoundAvg(rows) == (2 * 100 * SumAge(rows) + Len(rows)) \div (2 * Len(rows))

NullText == [null |-> TRUE, text |-> <<>>]
Text(t) == [null |-> FALSE, text |-> t]

\* the SELECT with both FILTER clauses testing is_eligible = false
StatsQuery_SameFilter(rows) ==
    [total_users      |-> Text(ToText(Len(rows))),
     eligible_users   |-> Text(ToText(CountWhere(rows, FALSE))),
     ineligible_users |-> Text(ToText(CountWhere(rows, FALSE))),
     average_age      |-> IF rows = <<>> THEN NullText
                          ELSE Text(NumericText(RoundAvg(rows)))]

\* the one row of SELECT COUNT(*), COUNT(*) FILTER ..., ROUND(AVG(age), 2)
\* FROM users, as the driver delivers it: counts as text, AVG of no rows NULL
StatsQuery(rows) ==
    [total_users      |-> Text(ToText(Len(rows))),
     eligible_users   |-> Text(ToText(CountWhere(rows, TRUE))),
     ineligible_users |-> Text(ToText(CountWhere(rows, FALSE))),
     average_age      |-> IF rows = <<>> THEN NullText
                          ELSE Text(NumericText(RoundAvg(rows)))]

-----------------------------------------------------------------------------
(* JavaScript numbers of the statistics response *)

NaN == [nan |-> TRUE, v |-> 0]
Number(h) == [nan |-> FALSE, v |-> h]

\* parseFloat of a value of the result row, in hundredths; NaN for null
parseFloat(x) ==
    IF x.null THEN NaN
    ELSE LET t   == x.text
             dot == IF \E i \in 1..Len(t) : t[i] = "."
                    THEN CHOOSE i \in 1..Len(t) : t[i] = "." ELSE Len(t) + 1
             frac == SubSeq(t, dot + 1, Len(t))
             f1  == IF Len(frac) >= 1 THEN DigitVal(frac[1]) ELSE 0
             f2  == IF Len(frac) >= 2 THEN DigitVal(frac[2]) ELSE 0
         IN  Number(parseInt(SubSeq(t, 1, dot - 1)) * 100 + f1 * 10 + f2)

\* the fallback || 0 left out
OrZero_Missing(x) == x

\* x || 0: NaN and 0 are falsy
OrZero(x) == IF x.nan \/ x.v = 0 THEN Number(0) ELSE x

\* the statistics object of GET /api/stats built from the result row
Statistics(stats) ==
    [totalUsers      |-> parseInt(stats.total_users.text),
     eligibleUsers   |-> parseInt(stats.eligible_users.text),
     ineligibleUsers |-> parseInt(stats.ineligible_users.text),
     averageAge      |-> OrZero(parseFloat(stats.average_age))]

-----------------------------------------------------------------------------
(* Error-handling middleware *)

NoError == [name |-> "", code |-> "", message |-> "", statusCode |-> 0]

\* what pool.query rejects with when the database cannot be reached
ConnectionError ==
    [name |-> "Error", code |-> "ECONNREFUSED",
     message |-> "connect ECONNREFUSED", statusCode |-> 0]

\* what pool.query rejects with when PostgreSQL refuses the statement
DatabaseError(code) ==
    [name |-> "error", code |-> code,
     message |-> IF code = "23514"
                 THEN "new row for relation \"users\" violates check constraint \"users_age_check\""
                 ELSE "value too long for type character varying(50)",
     statusCode |-> 0]

\* the error middleware with the default branch of its switch answering as
\* the first one does
errorHandler_Conflict(err) ==
    LET error ==
            IF err.name = "error" /\ err.code # ""
            THEN CASE err.code = "23503" -> [message |-> "Foreign key constraint violation", statusCode |-> 400]
                   [] err.code = "23502" -> [message |-> "Required field missing", statusCode |-> 400]
                   [] OTHER              -> [message |-> "Duplicate entry", statusCode |-> 409]
            ELSE [message |-> err.message, statusCode |-> err.statusCode]
        statusCode == IF error.statusCode # 0 THEN error.statusCode ELSE 500
        message    == IF error.message # "" THEN error.message ELSE "Internal Server Error"
    IN  [status |-> statusCode, body |-> [success |-> FALSE, error |-> message]]

\* the error middleware without the fallback of an empty message
errorHandler_NoFallback(err) ==
    LET error ==
            IF err.name = "error" /\ err.code # ""
            THEN CASE err.code = "23505" -> [message |-> "Duplicate entry", statusCode |-> 409]
                   [] err.code = "23503" -> [message |-> "Foreign key constraint violation", statusCode |-> 400]
                   [] err.code = "23502" -> [message |-> "Required field missing", statusCode |-> 400]
                   [] OTHER              -> [message |-> "Database error", statusCode |-> 500]
            ELSE [message |-> err.message, statusCode |-> err.statusCode]
        statusCode == IF error.statusCode # 0 THEN error.statusCode ELSE 500
    IN  [status |-> statusCode, body |-> [success |-> FALSE, error |-> error.message]]

errorHandler(err) ==
    LET error ==
            IF err.name = "error" /\ err.code # ""
            THEN CASE err.code = "23505" -> [message |-> "Duplicate entry", statusCode |-> 409]
                   [] err.code = "23503" -> [message |-> "Foreign key constraint violation", statusCode |-> 400]
                   [] err.code = "23502" -> [message |-> "Required field missing", statusCode |-> 400]
                   [] OTHER              -> [message |-> "Database error", statusCode |-> 500]
            ELSE [message |-> err.message, statusCode |-> err.statusCode]
        statusCode == IF error.statusCode # 0 THEN error.statusCode ELSE 500
        message    == IF error.message # "" THEN error.message ELSE "Internal Server Error"
    IN  [status |-> statusCode, body |-> [success |-> FALSE, error |-> message]]

-----------------------------------------------------------------------------
(* Requests *)

\* the requests of a run, numbered in the order they arrive
Calls == DOMAIN reqs

\* 2024-02-29T20:00Z, the instant the model starts at
StartNow == DaysFromCivil(2024, 2, 29) * 24 + 20

ZoneOffsets == {-5, 0, 9}

Jo == <<"J", "o">>

NoBody == [firstName |-> Undefined, lastName |-> Undefined, dateOfBirth |-> NoDate]

\* the request bodies the clients send
Bodies ==
    { [firstName |-> Str(Jo), lastName |-> Str(Jo), dateOfBirth |-> IsoDate(2006, 3, 1)],
      [firstName |-> Str(<<" ">>), lastName |-> Str(<<" ", "J", "o", " ">>),
       dateOfBirth |-> IsoDate(2024, 3, 1)],
      [firstName |-> Str(Jo), lastName |-> Str(Jo), dateOfBirth |-> IsoDate(1873, 2, 28)],
      [firstName |-> Str(<<>>), lastName |-> Str(Jo), dateOfBirth |-> IsoDate(2006, 3, 1)],
      [firstName |-> Str(<<"J", "1">>), lastName |-> Str(<<>>),
       dateOfBirth |-> IsoDate(2025, 1, 1)],
      [firstName |-> Str(Rep("1", NameMax + 1)), lastName |-> Num,
       dateOfBirth |-> NotADate] }

NoParams == [first_name |-> <<>>, last_name |-> <<>>,
             date_of_birth |-> [y |-> 0, m |-> 0, d |-> 0], age |-> 0, is_eligible |-> FALSE]
NoResult == [rows |-> <<>>]
NoResponse == [status |-> 0, body |-> [error |-> ""]]

\* a request that has not arrived yet; queries counts its calls of pool.query
Idle == [route |-> "none", pc |-> "idle", body |-> NoBody, age |-> 0, isEligible |-> FALSE,
         params |-> NoParams, queries |-> 0, result |-> NoResult, err |-> NoError,
         response |-> NoResponse, ip |-> "", rateLimit |-> [window |-> 0, current |-> 0]]

\* the address the requests of a run come from
ClientIPs == {"10.0.0.1"}

\* the limiter refuses a request whose hit count exceeds max
OverLimit_Late(current) == current > RateLimitMax + 1

OverLimit(current) == current > RateLimitMax

\* the 429 response of the limiter
TooManyRequests ==
    [status |-> 429,
     body |-> [error |-> "Too many requests from this IP, please try again later."]]

\* The limiter mounted on /api, run for request r from address ip before any
\* handler: the hit is counted, and the request is answered 429 at once when
\* the count exceeds max. Gives the request as the handler finds it.
limiter(r, ip, route) ==
    [reqs[r] EXCEPT !.route = route, !.ip = ip,
                    !.rateLimit = [window  |-> limiterStore.window[ip],
                                   current |-> limiterStore.hits[ip] + 1],
                    !.pc = IF OverLimit(limiterStore.hits[ip] + 1) THEN "done" ELSE "handler",
                    !.response = IF OverLimit(limiterStore.hits[ip] + 1)
                                 THEN TooManyRequests ELSE NoResponse]

\* a nullable field of a component: null, or holding a value
Null == [null |-> TRUE]
Value(v) == [null |-> FALSE, value |-> v]

\* EligibilityComponent as constructed: result = null, loading = false, and
\* no call of checkEligibility subscribed to yet
NewEligibilityComponent ==
    [result |-> Null, loading |-> FALSE, subscriptions |-> <<>>]

\* StatsComponent as constructed: stats = null, loading = true, error = null,
\* no chart, the canvases of the view not rendered; charts are the Chart
\* objects it has created, requests its calls of getStatistics not yet
\* answered, timers its setTimeout callbacks not yet run
NewStatsComponent ==
    [lifecycle |-> "constructed", stats |-> Null, loading |-> TRUE, error |-> Null,
     pieChart |-> 0, barChart |-> 0, pieChartCanvas |-> FALSE, barChartCanvas |-> FALSE,
     charts |-> <<>>, requests |-> 0, timers |-> 0, loads |-> 0]

\* requests are numbered in the order they arrive
Arrives(r) == reqs[r].pc = "idle" /\ (IF r = 1 THEN TRUE ELSE reqs[r - 1].pc # "idle")

Init ==
    /\ users = <<>>
    /\ users_id_seq = 0
    /\ now = StartNow
    /\ tz \in ZoneOffsets
    /\ reqs = [r \in 1..MaxCalls |-> Idle]
    /\ ageCall = NoCall
    /\ limiterStore = [window |-> [ip \in ClientIPs |-> 0], hits |-> [ip \in ClientIPs |-> 0]]
    /\ eligibilityComponent = NewEligibilityComponent
    /\ statsComponent = NewStatsComponent

\* POST /api/check-eligibility up to the await: validation, age, the INSERT issued
PostCheckEligibility(r, body) ==
    /\ Arrives(r)
    /\ \E ip \in DOMAIN limiterStore.hits :
          LET req == [limiter(r, ip, "check") EXCEPT !.body = body]
              v   == validate(body)
          IN  /\ limiterStore' = [limiterStore EXCEPT !.hits[ip] = @ + 1]
              /\ IF req.pc = "done"
                 THEN reqs' = [reqs EXCEPT ![r] = req]
                 ELSE IF v.error
                 THEN reqs' = [reqs EXCEPT ![r] =
                          [req EXCEPT !.pc = "done",
                                      !.response = [status |-> 400,
                                                    body |-> [error |-> "Validation failed",
                                                              details |-> v.details]]]]
                 ELSE LET age == calculateAge(v.value.dateOfBirth)
                      IN  reqs' = [reqs EXCEPT ![r] =
                              [req EXCEPT !.pc = "query",
                                          !.age = age, !.isEligible = isEligible(age),
                                          !.params = InsertParams(v.value, age, isEligible(age)),
                                          !.queries = @ + 1]]
    /\ UNCHANGED <<users, users_id_seq, now, tz, ageCall, eligibilityComponent, statsComponent>>

\* the success response with its message chosen by age > 18
Created_MessageByAge(req, result) ==
    [status |-> 201,
     body |-> [id        |-> result.rows[1].id,
               age       |-> req.age,
               eligible  |-> req.isEligible,
               message   |-> IF req.age > MinAge
                             THEN "You are eligible for the program"
                             ELSE "You are not eligible for the program",
               timestamp |-> result.rows[1].created_at]]

\* the success response sent without its status set
Created_Ok200(req, result) ==
    [status |-> 200,
     body |-> [id        |-> result.rows[1].id,
               age       |-> req.age,
               eligible  |-> req.isEligible,
               message   |-> IF req.isEligible
                             THEN "You are eligible for the program"
                             ELSE "You are not eligible for the program",
               timestamp |-> result.rows[1].created_at]]

\* the 201 response of POST /api/check-eligibility
Created(req, result) ==
    [status |-> 201,
     body |-> [id        |-> result.rows[1].id,
               age       |-> req.age,
               eligible  |-> req.isEligible,
               message   |-> IF req.isEligible
                             THEN "You are eligible for the program"
                             ELSE "You are not eligible for the program",
               timestamp |-> result.rows[1].created_at]]

\* the INSERT as an upsert on the person: a row of the same names and birth
\* date is overwritten with the new age and creation time
InsertQuery_Upsert(r) ==
    /\ reqs[r].route = "check" /\ reqs[r].pc = "query"
    /\ LET id     == users_id_seq + 1
           row    == NewRow(id, reqs[r].params)
           same   == {i \in 1..Len(users) :
                         /\ users[i].first_name = row.first_name
                         /\ users[i].last_name = row.last_name
                         /\ users[i].date_of_birth = row.date_of_birth}
           code   == ConstraintViolation(row)
           result == [rows |-> <<[id |-> row.id, created_at |-> row.created_at]>>]
       IN  /\ users_id_seq' = id
           /\ IF code # ""
              THEN /\ users' = users
                   /\ reqs' = [reqs EXCEPT ![r] =
                          [@ EXCEPT !.pc = "done", !.err = DatabaseError(code),
                                    !.response = errorHandler(DatabaseError(code))]]
              ELSE /\ users' = IF same = {} THEN Append(users, row)
                               ELSE [i \in 1..Len(users) |->
                                        IF i \in same THEN [row EXCEPT !.id = users[i].id]
                                        ELSE users[i]]
                   /\ reqs' = [reqs EXCEPT ![r] =
                          [@ EXCEPT !.pc = "done", !.result = result,
                                    !.response = Created(reqs[r], result)]]
    /\ UNCHANGED <<now, tz, ageCall, limiterStore, eligibilityComponent, statsComponent>>

\* POST /api/check-eligibility from the await on. PostgreSQL runs the INSERT:
\* the sequence advances, the constraints are checked, the row is appended
\* and RETURNING id, created_at is answered. The handler then sends the 201
\* response, or its catch block hands the error to the error middleware.
InsertQuery(r) ==
    /\ reqs[r].route = "check" /\ reqs[r].pc = "query"
    /\ LET id     == users_id_seq + 1
           row    == NewRow(id, reqs[r].params)
           code   == ConstraintViolation(row)
           result == [rows |-> <<[id |-> row.id, created_at |-> row.created_at]>>]
       IN  /\ users_id_seq' = id
           /\ IF code # ""
              THEN /\ users' = users
                   /\ reqs' = [reqs EXCEPT ![r] =
                          [@ EXCEPT !.pc = "done", !.err = DatabaseError(code),
                                    !.response = errorHandler(DatabaseError(code))]]
              ELSE /\ users' = Append(users, row)
                   /\ reqs' = [reqs EXCEPT ![r] =
                          [@ EXCEPT !.pc = "done", !.result = result,
                                    !.response = Created(reqs[r], result)]]
    /\ UNCHANGED <<now, tz, ageCall, limiterStore, eligibilityComponent, statsComponent>>

\* the catch block issuing the rejected query once more before giving up
QueryUnavailable_Retry(r) ==
    /\ reqs[r].route \in {"check", "stats"} /\ reqs[r].pc = "query"
    /\ IF reqs[r].queries < 2
       THEN reqs' = [reqs EXCEPT ![r] = [@ EXCEPT !.queries = @ + 1]]
       ELSE reqs' = [reqs EXCEPT ![r] =
               [@ EXCEPT !.pc = "done", !.err = ConnectionError,
                         !.response = errorHandler(ConnectionError)]]
    /\ UNCHANGED <<users, users_id_seq, now, tz, ageCall, limiterStore, eligibilityComponent, statsComponent>>

\* pool.query rejects because the database cannot be reached; the catch
\* block of either route hands the error to the error middleware
QueryUnavailable(r) ==
    /\ reqs[r].route \in {"check", "stats"} /\ reqs[r].pc = "query"
    /\ reqs' = [reqs EXCEPT ![r] =
          [@ EXCEPT !.pc = "done", !.err = ConnectionError,
                    !.response = errorHandler(ConnectionError)]]
    /\ UNCHANGED <<users, users_id_seq, now, tz, ageCall, limiterStore, eligibilityComponent, statsComponent>>

\* GET /api/stats up to the await: the SELECT issued
GetStats(r) ==
    /\ Arrives(r)
    /\ \E ip \in DOMAIN limiterStore.hits :
          LET req == limiter(r, ip, "stats")
          IN  /\ limiterStore' = [limiterStore EXCEPT !.hits[ip] = @ + 1]
              /\ IF req.pc = "done"
                 THEN reqs' = [reqs EXCEPT ![r] = req]
                 ELSE reqs' = [reqs EXCEPT ![r] =
                          [req EXCEPT !.pc = "query", !.queries = @ + 1]]
    /\ UNCHANGED <<users, users_id_seq, now, tz, ageCall, eligibilityComponent, statsComponent>>

\* GET /api/stats from the await on: PostgreSQL runs the SELECT as one
\* statement over the table as it is, and the handler sends the statistics
SelectQuery(r) ==
    /\ reqs[r].route = "stats" /\ reqs[r].pc = "query"
    /\ LET result == [rows |-> <<StatsQuery(users)>>]
       IN  reqs' = [reqs EXCEPT ![r] =
              [@ EXCEPT !.pc = "done", !.result = result,
                        !.response = [status |-> 200,
                                      body |-> [statistics |-> Statistics(result.rows[1])]]]]
    /\ UNCHANGED <<users, users_id_seq, now, tz, ageCall, limiterStore, eligibilityComponent, statsComponent>>

\* GET /health up to the await: SELECT 1 issued
GetHealth(r) ==
    /\ Arrives(r)
    /\ reqs' = [reqs EXCEPT ![r] = [@ EXCEPT !.route = "health", !.pc = "query", !.queries = @ + 1]]
    /\ UNCHANGED <<users, users_id_seq, now, tz, ageCall, limiterStore, eligibilityComponent, statsComponent>>

\* GET /ready up to the await: SELECT 1 issued
GetReady(r) ==
    /\ Arrives(r)
    /\ reqs' = [reqs EXCEPT ![r] = [@ EXCEPT !.route = "ready", !.pc = "query", !.queries = @ + 1]]
    /\ UNCHANGED <<users, users_id_seq, now, tz, ageCall, limiterStore, eligibilityComponent, statsComponent>>

\* the probes from the await on, SELECT 1 answered (uptime and memory, which
\* are figures of the process, are left out of the health body)
ProbeQuery(r) ==
    /\ reqs[r].route \in {"health", "ready"} /\ reqs[r].pc = "query"
    /\ reqs' = [reqs EXCEPT ![r] =
          [@ EXCEPT !.pc = "done",
                    !.response =
                        IF reqs[r].route = "health"
                        THEN [status |-> 200,
                              body |-> [status |-> "healthy", timestamp |-> now,
                                        database |-> "connected", version |-> "1.0.0"]]
                        ELSE [status |-> 200, body |-> [status |-> "ready"]]]]
    /\ UNCHANGED <<users, users_id_seq, now, tz, ageCall, limiterStore, eligibilityComponent, statsComponent>>

\* the probes' catch blocks handing the error on to the error middleware
ProbeUnavailable_Next(r) ==
    /\ reqs[r].route \in {"health", "ready"} /\ reqs[r].pc = "query"
    /\ reqs' = [reqs EXCEPT ![r] =
          [@ EXCEPT !.pc = "done", !.err = ConnectionError,
                    !.response = errorHandler(ConnectionError)]]
    /\ UNCHANGED <<users, users_id_seq, now, tz, ageCall, limiterStore, eligibilityComponent, statsComponent>>

\* the probes from the await on, SELECT 1 rejected: their own catch blocks answer
ProbeUnavailable(r) ==
    /\ reqs[r].route \in {"health", "ready"} /\ reqs[r].pc = "query"
    /\ reqs' = [reqs EXCEPT ![r] =
          [@ EXCEPT !.pc = "done", !.err = ConnectionError,
                    !.response =
                        IF reqs[r].route = "health"
                        THEN [status |-> 503,
                              body |-> [status |-> "unhealthy", timestamp |-> now,
                                        database |-> "disconnected",
                                        error |-> "Database connection failed"]]
                        ELSE [status |-> 503, body |-> [status |-> "not ready"]]]]
    /\ UNCHANGED <<users, users_id_seq, now, tz, ageCall, limiterStore, eligibilityComponent, statsComponent>>

\* time passes
Tick ==
    /\ now < StartNow + MaxTicks * TickHours
    /\ now' = now + TickHours
    /\ UNCHANGED <<users, users_id_seq, tz, reqs, ageCall, limiterStore, eligibilityComponent, statsComponent>>

Next ==
    \/ \E r \in Calls, body \in Bodies : PostCheckEligibility(r, body)
    \/ \E r \in Calls : InsertQuery(r)
    \/ \E r \in Calls : QueryUnavailable(r)
    \/ \E r \in Calls : GetStats(r)
    \/ \E r \in Calls : SelectQuery(r)
    \/ Tick

Spec == Init /\ [][Next]_vars

-----------------------------------------------------------------------------
(* The same server receiving only bodies the validator and the table can   *)
(* accept, over a longer run at one instant: the table grows to three rows. *)

StatsBodies ==
    { [firstName |-> Str(Jo), lastName |-> Str(Jo), dateOfBirth |-> IsoDate(2006, 3, 1)],
      [firstName |-> Str(Jo), lastName |-> Str(<<" ", "J", "o", " ">>),
       dateOfBirth |-> IsoDate(2024, 2, 29)] }

InitStats ==
    /\ users = <<>>
    /\ users_id_seq = 0
    /\ now = StartNow
    /\ tz \in ZoneOffsets
    /\ reqs = [r \in 1..MaxStatsCalls |-> Idle]
    /\ ageCall = NoCall
    /\ limiterStore = [window |-> [ip \in ClientIPs |-> 0], hits |-> [ip \in ClientIPs |-> 0]]
    /\ eligibilityComponent = NewEligibilityComponent
    /\ statsComponent = NewStatsComponent

NextStats ==
    \/ \E r \in Calls, body \in StatsBodies : PostCheckEligibility(r, body)
    \/ \E r \in Calls : InsertQuery(r)
    \/ \E r \in Calls : QueryUnavailable(r)
    \/ \E r \in Calls : GetStats(r)
    \/ \E r \in Calls : SelectQuery(r)

SpecStats == InitStats /\ [][NextStats]_vars

-----------------------------------------------------------------------------
(* The server with all four routes in use while time passes. *)

InitProbes ==
    /\ users = <<>>
    /\ users_id_seq = 0
    /\ now = StartNow
    /\ tz \in ZoneOffsets
    /\ reqs = [r \in 1..MaxProbeCalls |-> Idle]
    /\ ageCall = NoCall
    /\ limiterStore = [window |-> [ip \in ClientIPs |-> 0], hits |-> [ip \in ClientIPs |-> 0]]
    /\ eligibilityComponent = NewEligibilityComponent
    /\ statsComponent = NewStatsComponent

NextProbes ==
    \/ \E r \in Calls, body \in StatsBodies : PostCheckEligibility(r, body)
    \/ \E r \in Calls : InsertQuery(r)
    \/ \E r \in Calls : QueryUnavailable(r)
    \/ \E r \in Calls : GetStats(r)
    \/ \E r \in Calls : SelectQuery(r)
    \/ \E r \in Calls : GetHealth(r)
    \/ \E r \in Calls : GetReady(r)
    \/ \E r \in Calls : ProbeQuery(r)
    \/ \E r \in Calls : ProbeUnavailable(r)
    \/ Tick

SpecProbes == InitProbes /\ [][NextProbes]_vars

-----------------------------------------------------------------------------
(* calculateAge called on its own, day after day, with any string. *)

\* 20:00Z three days before the end of February of a common year and of a
\* leap year, and three days before the end of a year
AgeStarts ==
    { DaysFromCivil(2023, 2, 26) * 24 + 20,
      DaysFromCivil(2024, 2, 26) * 24 + 20,
      DaysFromCivil(2023, 12, 29) * 24 + 20 }

\* the arguments of the calls
AgeInputs ==
    { IsoDate(2000, 2, 29), IsoDate(2006, 2, 28), IsoDate(2006, 3, 1),
      IsoDate(2005, 12, 31), IsoDate(2006, 1, 1), IsoDate(2023, 3, 1),
      IsoDate(2024, 3, 2), IsoDate(2025, 1, 1), NotADate }

InitAge ==
    /\ users = <<>>
    /\ users_id_seq = 0
    /\ now \in AgeStarts
    /\ tz \in ZoneOffsets
    /\ reqs = <<>>
    /\ ageCall = NoCall
    /\ limiterStore = [window |-> [ip \in ClientIPs |-> 0], hits |-> [ip \in ClientIPs |-> 0]]
    /\ eligibilityComponent = NewEligibilityComponent
    /\ statsComponent = NewStatsComponent

\* calculateAge(dateOfBirth) called at the current instant
CallCalculateAge(dateOfBirth) ==
    /\ ageCall' = [dateOfBirth |-> dateOfBirth, asOf |-> now,
                   outcome |-> CalculateAgeCall(dateOfBirth)]
    /\ UNCHANGED <<users, users_id_seq, now, tz, reqs, limiterStore, eligibilityComponent, statsComponent>>

\* a day passes
NextDay ==
    /\ \E start \in AgeStarts : now >= start /\ now < start + MaxDays * 24
    /\ now' = now + 24
    /\ UNCHANGED <<users, users_id_seq, tz, reqs, ageCall, limiterStore, eligibilityComponent, statsComponent>>

NextAge ==
    \/ \E dateOfBirth \in AgeInputs : CallCalculateAge(dateOfBirth)
    \/ NextDay

SpecAge == InitAge /\ [][NextAge]_vars

-----------------------------------------------------------------------------
(* The server with an address close to its request limit: the run starts   *)
(* in a window in which an address has made no request yet or has made all *)
(* but one of the requests it is allowed, each of them answered.           *)

LimitIPs == {"10.0.0.1", "10.0.0.2"}

LimitBodies ==
    { [firstName |-> Str(Jo), lastName |-> Str(Jo), dateOfBirth |-> IsoDate(2006, 3, 1)] }

InitLimit ==
    /\ users = <<>>
    /\ users_id_seq = 0
    /\ now = StartNow
    /\ tz \in ZoneOffsets
    /\ reqs = [r \in 1..MaxLimitCalls |-> Idle]
    /\ ageCall = NoCall
    /\ \E hits \in [LimitIPs -> {0, RateLimitMax - 1}] :
          limiterStore = [window |-> [ip \in LimitIPs |-> 0], hits |-> hits]
    /\ eligibilityComponent = NewEligibilityComponent
    /\ statsComponent = NewStatsComponent

\* windowMs have passed since the window of an address began: its hits are
\* forgotten and its next request begins a new window
WindowReset(ip) ==
    /\ limiterStore.window[ip] < MaxWindows
    /\ limiterStore' = [limiterStore EXCEPT !.window[ip] = @ + 1, !.hits[ip] = 0]
    /\ UNCHANGED <<users, users_id_seq, now, tz, reqs, ageCall, eligibilityComponent, statsComponent>>

NextLimit ==
    \/ \E r \in Calls, body \in LimitBodies : PostCheckEligibility(r, body)
    \/ \E r \in Calls : InsertQuery(r)
    \/ \E r \in Calls : GetStats(r)
    \/ \E r \in Calls : SelectQuery(r)
    \/ \E r \in Calls : GetHealth(r)
    \/ \E r \in Calls : GetReady(r)
    \/ \E r \in Calls : ProbeQuery(r)
    \/ \E ip \in DOMAIN limiterStore.hits : WindowReset(ip)

SpecLimit == InitLimit /\ [][NextLimit]_vars

-----------------------------------------------------------------------------
(* The error middleware receiving whatever a query can be rejected with,   *)
(* and the error of a route that does not exist.                           *)

\* errors as PostgreSQL reports them (name 'error', a code), and other errors
\* with or without a code, a statusCode and a message
ErrorInputs ==
    {[name |-> "error", code |-> c, message |-> "pg", statusCode |-> 0] :
        c \in {"23505", "23503", "23502", "23514", "22001", "57P01", ""}}
    \cup {ConnectionError,
          [name |-> "Error", code |-> "", message |-> "", statusCode |-> 0],
          [name |-> "Error", code |-> "", message |-> "", statusCode |-> 503],
          [name |-> "Error", code |-> "23505", message |-> "busy", statusCode |-> 429]}

\* pool.query rejects with some error; the catch block of the route hands it
\* to the error middleware
QueryRejected(r, err) ==
    /\ reqs[r].route \in {"check", "stats"} /\ reqs[r].pc = "query"
    /\ reqs' = [reqs EXCEPT ![r] =
          [@ EXCEPT !.pc = "done", !.err = err, !.response = errorHandler(err)]]
    /\ UNCHANGED <<users, users_id_seq, now, tz, ageCall, limiterStore, eligibilityComponent, statsComponent>>

\* a request to no route: notFoundHandler makes the error, errorHandler answers
notFoundHandler(r) ==
    /\ Arrives(r)
    /\ LET error == [name |-> "Error", code |-> "",
                     message |-> "Not Found - /unknown-route", statusCode |-> 404]
       IN  reqs' = [reqs EXCEPT ![r] =
              [@ EXCEPT !.route = "unknown", !.pc = "done", !.err = error,
                        !.response = errorHandler(error)]]
    /\ UNCHANGED <<users, users_id_seq, now, tz, ageCall, limiterStore, eligibilityComponent, statsComponent>>

InitErrors ==
    /\ users = <<>>
    /\ users_id_seq = 0
    /\ now = StartNow
    /\ tz \in ZoneOffsets
    /\ reqs = [r \in 1..MaxErrorCalls |-> Idle]
    /\ ageCall = NoCall
    /\ limiterStore = [window |-> [ip \in ClientIPs |-> 0], hits |-> [ip \in ClientIPs |-> 0]]
    /\ eligibilityComponent = NewEligibilityComponent
    /\ statsComponent = NewStatsComponent

NextErrors ==
    \/ \E r \in Calls, body \in LimitBodies : PostCheckEligibility(r, body)
    \/ \E r \in Calls : GetStats(r)
    \/ \E r \in Calls, err \in ErrorInputs : QueryRejected(r, err)
    \/ \E r \in Calls : notFoundHandler(r)

SpecErrors == InitErrors /\ [][NextErrors]_vars

-----------------------------------------------------------------------------
(* The check-eligibility route receiving one varied field at a time. *)

\* name values: of the shortest and longest lengths, padded with blanks,
\* blank only, with a digit, with a tab, with a hyphen and an apostrophe,
\* no string, absent
ValidateNames ==
    { Str(Jo), Str(<<"a">>), Str(<<>>), Str(<<" ">>), Str(<<" ", "J", "o", " ">>),
      Str(<<"J", "1">>), Str(<<"J", "\t", "o">>), Str(<<"J", "-", "o", "'", "a", " ", "b">>),
      Str(Rep("a", NameMax)), Str(Rep("a", NameMax + 1)),
      Str(<<" ">> \o Rep("a", NameMax) \o <<" ">>),
      Num, Undefined }

\* dateOfBirth values: a past date, a day no month has (the ISO pattern of
\* Joi admits every day 01 to 31, and new Date carries the surplus days into
\* the next month), the days around the instants of ValidateInstants, text
\* that is no ISO date, absent
ValidateDates ==
    { IsoDate(2006, 3, 1), IsoDate(2006, 2, 30), IsoDate(2024, 2, 29), IsoDate(2024, 3, 1),
      IsoDate(2024, 3, 2), NotADate, NoDate }

ValidateBodies ==
    {[firstName |-> n, lastName |-> Str(Jo), dateOfBirth |-> IsoDate(2006, 3, 1)] :
        n \in ValidateNames}
    \cup {[firstName |-> Str(Jo), lastName |-> n, dateOfBirth |-> IsoDate(2006, 3, 1)] :
        n \in ValidateNames}
    \cup {[firstName |-> Str(Jo), lastName |-> Str(Jo), dateOfBirth |-> d] :
        d \in ValidateDates}

\* 2024-02-29T20:00Z and 2024-03-01T02:00Z
ValidateInstants == {StartNow, DaysFromCivil(2024, 3, 1) * 24 + 2}

InitValidate ==
    /\ users = <<>>
    /\ users_id_seq = 0
    /\ now \in ValidateInstants
    /\ tz \in ZoneOffsets
    /\ reqs = [r \in 1..MaxValidateCalls |-> Idle]
    /\ ageCall = NoCall
    /\ limiterStore = [window |-> [ip \in ClientIPs |-> 0], hits |-> [ip \in ClientIPs |-> 0]]
    /\ eligibilityComponent = NewEligibilityComponent
    /\ statsComponent = NewStatsComponent

NextValidate ==
    \/ \E r \in Calls, body \in ValidateBodies : PostCheckEligibility(r, body)
    \/ \E r \in Calls : InsertQuery(r)
    \/ \E r \in Calls : QueryUnavailable(r)

SpecValidate == InitValidate /\ [][NextValidate]_vars

-----------------------------------------------------------------------------
(* The form page of the browser: EligibilityComponent and the               *)
(* checkEligibility pipeline of EligibilityService, in front of the server. *)
(* A subscription is one call of checkEligibility subscribed to by          *)
(* onSubmit: the attempt it is at, the POST of that attempt (numbered in    *)
(* the order the browser sends them), and whether it has ended.             *)

MaxSubmits == 2

\* the POSTs the browser has sent so far: one per attempt of each subscription
Posts ==
    LET subs == eligibilityComponent.subscriptions
    IN  Len(subs) + Cardinality({s \in DOMAIN subs : subs[s].attempt = 2})

\* formData of a valid form
FormBodies ==
    { [firstName |-> Str(Jo), lastName |-> Str(Jo), dateOfBirth |-> IsoDate(2006, 3, 1)] }

InitForm ==
    /\ users = <<>>
    /\ users_id_seq = 0
    /\ now = StartNow
    /\ tz \in ZoneOffsets
    /\ reqs = [r \in 1..(2 * MaxSubmits) |-> Idle]
    /\ ageCall = NoCall
    /\ limiterStore = [window |-> [ip \in ClientIPs |-> 0], hits |-> [ip \in ClientIPs |-> 0]]
    /\ eligibilityComponent = NewEligibilityComponent
    /\ statsComponent = NewStatsComponent

\* onSubmit: on a valid form, loading and result are set and checkEligibility
\* is subscribed to, which sends its first POST; on an invalid form, nothing
onSubmit(valid) ==
    /\ IF valid
       THEN /\ Len(eligibilityComponent.subscriptions) < MaxSubmits
            /\ eligibilityComponent' =
                  [eligibilityComponent EXCEPT
                      !.loading = TRUE,
                      !.result = Null,
                      !.subscriptions = Append(@, [attempt |-> 1, post |-> Posts + 1,
                                                   state |-> "waiting"])]
       ELSE UNCHANGED eligibilityComponent
    /\ UNCHANGED <<users, users_id_seq, now, tz, reqs, ageCall, limiterStore, statsComponent>>

\* resetForm: the form is reset and result cleared
resetForm ==
    /\ eligibilityComponent' = [eligibilityComponent EXCEPT !.result = Null]
    /\ UNCHANGED <<users, users_id_seq, now, tz, reqs, ageCall, limiterStore, statsComponent>>

\* An error of the POST of subscription s: retry(1) subscribes to the POST
\* once more, which sends it again; the error of the second attempt goes
\* through catchError to the error callback of onSubmit
Errored(c, s) ==
    IF c.subscriptions[s].attempt = 1
    THEN [c EXCEPT !.subscriptions[s] = [attempt |-> 2, post |-> Posts + 1,
                                         state |-> "waiting"]]
    ELSE [c EXCEPT !.subscriptions[s].state = "error", !.loading = FALSE]

\* the next callback of onSubmit: result and loading set
Received(c, s, body) ==
    [c EXCEPT !.result = Value(body), !.loading = FALSE,
              !.subscriptions[s].state = "complete"]

\* the browser receives the response of the POST subscription s waits for:
\* a 2xx goes to next, any other status is an error
HttpResponse(s) ==
    /\ s \in DOMAIN eligibilityComponent.subscriptions
    /\ eligibilityComponent.subscriptions[s].state = "waiting"
    /\ LET req == reqs[eligibilityComponent.subscriptions[s].post]
       IN  /\ req.pc = "done"
           /\ eligibilityComponent' =
                 IF req.response.status \in 200..299
                 THEN Received(eligibilityComponent, s, req.response.body)
                 ELSE Errored(eligibilityComponent, s)
    /\ UNCHANGED <<users, users_id_seq, now, tz, reqs, ageCall, limiterStore, statsComponent>>

\* the POST subscription s waits for fails in the network: the request or
\* its response is lost, whatever the server does or has done with it
HttpFailure(s) ==
    /\ s \in DOMAIN eligibilityComponent.subscriptions
    /\ eligibilityComponent.subscriptions[s].state = "waiting"
    /\ eligibilityComponent' = Errored(eligibilityComponent, s)
    /\ UNCHANGED <<users, users_id_seq, now, tz, reqs, ageCall, limiterStore, statsComponent>>

\* the server receives only POSTs the browser has sent
NextForm ==
    \/ \E valid \in BOOLEAN : onSubmit(valid)
    \/ resetForm
    \/ \E r \in Calls, body \in FormBodies : r <= Posts /\ PostCheckEligibility(r, body)
    \/ \E r \in Calls : InsertQuery(r)
    \/ \E r \in Calls : QueryUnavailable(r)
    \/ \E s \in 1..MaxSubmits : HttpResponse(s)
    \/ \E s \in 1..MaxSubmits : HttpFailure(s)

SpecForm == InitForm /\ [][NextForm]_vars

-----------------------------------------------------------------------------
(* The statistics page of the browser: StatsComponent with its template.    *)
(* Angular runs change detection after every callback of a live component,  *)
(* which renders the two canvases exactly when stats && !loading and        *)
(* resolves the view queries pieChartCanvas and barChartCanvas; a destroyed *)
(* component is not rendered again and its fields stay as they were.        *)

MaxLoads == 3

\* change detection of the component's view
Rendered(c) ==
    IF c.lifecycle = "live"
    THEN LET shown == ~c.stats.null /\ ~c.loading
         IN  [c EXCEPT !.pieChartCanvas = shown, !.barChartCanvas = shown]
    ELSE c

\* loadStatistics up to the subscription: the flags set, getStatistics called
loadStatistics(c) ==
    [c EXCEPT !.loading = TRUE, !.error = Null, !.requests = @ + 1, !.loads = @ + 1]

\* chart.destroy() on the chart a field holds, if it holds one
Destroy(charts, chart) ==
    IF chart = 0 THEN charts ELSE [charts EXCEPT ![chart].destroyed = TRUE]

\* createPieChart: nothing without the canvas or the statistics; else the
\* chart held is destroyed and a new Chart created and held
createPieChart(c) ==
    IF ~c.pieChartCanvas \/ c.stats.null THEN c
    ELSE LET charts == Destroy(c.charts, c.pieChart)
         IN  [c EXCEPT !.charts = Append(charts, [type |-> "doughnut", destroyed |-> FALSE]),
                       !.pieChart = Len(charts) + 1]

\* createBarChart: the same for the bar chart
createBarChart(c) ==
    IF ~c.barChartCanvas \/ c.stats.null THEN c
    ELSE LET charts == Destroy(c.charts, c.barChart)
         IN  [c EXCEPT !.charts = Append(charts, [type |-> "bar", destroyed |-> FALSE]),
                       !.barChart = Len(charts) + 1]

\* the body the server answers GET /api/stats with, over the table as it is
StatsResponse == [statistics |-> Statistics(StatsQuery(users))]

InitStatsPage ==
    /\ users \in {<<>>, <<[id |-> 1, first_name |-> Jo, last_name |-> Jo,
                            date_of_birth |-> [y |-> 2006, m |-> 3, d |-> 1], age |-> 17,
                            is_eligible |-> FALSE, created_at |-> StartNow]>>}
    /\ users_id_seq = Len(users)
    /\ now = StartNow
    /\ tz = 0
    /\ reqs = <<>>
    /\ ageCall = NoCall
    /\ limiterStore = [window |-> [ip \in ClientIPs |-> 0], hits |-> [ip \in ClientIPs |-> 0]]
    /\ eligibilityComponent = NewEligibilityComponent
    /\ statsComponent = NewStatsComponent

\* ngOnInit, on the first change detection of the page: loadStatistics
ngOnInit ==
    /\ statsComponent.lifecycle = "constructed"
    /\ statsComponent' =
          Rendered(loadStatistics([statsComponent EXCEPT !.lifecycle = "live"]))
    /\ UNCHANGED <<users, users_id_seq, now, tz, reqs, ageCall, limiterStore,
                   eligibilityComponent>>

\* refresh, from the Refresh button (disabled while loading) or the retry
\* button of the error message
refresh ==
    /\ statsComponent.lifecycle = "live"
    /\ ~statsComponent.loading \/ ~statsComponent.error.null
    /\ statsComponent.loads < MaxLoads
    /\ statsComponent' = Rendered(loadStatistics(statsComponent))
    /\ UNCHANGED <<users, users_id_seq, now, tz, reqs, ageCall, limiterStore,
                   eligibilityComponent>>

\* the next callback of loadStatistics: the statistics kept and createCharts
\* scheduled 100 ms later; the subscription outlives the component
StatsLoaded ==
    /\ statsComponent.requests > 0
    /\ statsComponent' =
          Rendered([statsComponent EXCEPT !.stats = Value(StatsResponse.statistics),
                                          !.loading = FALSE,
                                          !.timers = @ + 1,
                                          !.requests = @ - 1])
    /\ UNCHANGED <<users, users_id_seq, now, tz, reqs, ageCall, limiterStore,
                   eligibilityComponent>>

\* the error callback of loadStatistics
StatsFailed ==
    /\ statsComponent.requests > 0
    /\ statsComponent' =
          Rendered([statsComponent EXCEPT !.error = Value("Failed to load statistics"),
                                          !.loading = FALSE,
                                          !.requests = @ - 1])
    /\ UNCHANGED <<users, users_id_seq, now, tz, reqs, ageCall, limiterStore,
                   eligibilityComponent>>

\* the timer of a loaded response runs createCharts
createCharts ==
    /\ statsComponent.timers > 0
    /\ LET c == [statsComponent EXCEPT !.timers = @ - 1]
       IN  statsComponent' =
              IF c.stats.null THEN Rendered(c)
              ELSE Rendered(createBarChart(createPieChart(c)))
    /\ UNCHANGED <<users, users_id_seq, now, tz, reqs, ageCall, limiterStore,
                   eligibilityComponent>>

\* ngOnDestroy, when the page is left: the charts held are destroyed
ngOnDestroy ==
    /\ statsComponent.lifecycle = "live"
    /\ statsComponent' =
          [statsComponent EXCEPT
              !.lifecycle = "destroyed",
              !.charts = Destroy(Destroy(@, statsComponent.pieChart), statsComponent.barChart)]
    /\ UNCHANGED <<users, users_id_seq, now, tz, reqs, ageCall, limiterStore,
                   eligibilityComponent>>

NextStatsPage ==
    \/ ngOnInit
    \/ refresh
    \/ StatsLoaded
    \/ StatsFailed
    \/ createCharts
    \/ ngOnDestroy

SpecStatsPage == InitStatsPage /\ [][NextStatsPage]_vars

-----------------------------------------------------------------------------
(* Properties *)

Range(f) == {f[i] : i \in DOMAIN f}

Succeeded(r) == reqs[r].route = "check" /\ reqs[r].pc = "done" /\ reqs[r].response.status = 201

ValidationFailed(r) ==
    reqs[r].route = "check" /\ reqs[r].pc = "done" /\ reqs[r].response.status = 400

StatsAnswered(r) == reqs[r].route = "stats" /\ reqs[r].pc = "done" /\ reqs[r].response.status = 200

\* C1: every persisted row and every 201 response has eligible = (age >= 18),
\* with the age computed for that call.
C1_EligibleIffAdult ==
    /\ \A i \in 1..Len(users) : users[i].is_eligible = (users[i].age >= 18)
    /\ \A r \in Calls : Succeeded(r) =>
          /\ reqs[r].response.body.eligible = (reqs[r].response.body.age >= 18)
          /\ reqs[r].response.body.age = reqs[r].age

\* a call answered at exactly 18 (eligible) beside one answered at 17 (not)
C1_Witness ==
    \E r, q \in Calls :
        /\ Succeeded(r) /\ reqs[r].response.body.age = 18 /\ reqs[r].response.body.eligible
        /\ Succeeded(q) /\ reqs[q].response.body.age = 17 /\ ~reqs[q].response.body.eligible
        /\ \E i \in 1..Len(users) : users[i].age = 18 /\ users[i].is_eligible

\* C2: a call whose input fails validation (an empty firstName, a dateOfBirth
\* after the current instant) appends nothing and is answered 400
\* 'Validation failed'; no step that answers 400 changes the table.
C2_InvalidInputNoAppend ==
    [][\A r \in Calls :
          /\ (/\ reqs[r].pc = "idle" /\ reqs'[r].route = "check"
              /\ \/ reqs'[r].body.firstName = Str(<<>>)
                 \/ DateParse(reqs'[r].body.dateOfBirth) > now)
             => /\ users' = users /\ users_id_seq' = users_id_seq
                /\ reqs'[r].pc = "done"
                /\ reqs'[r].response.status = 400
                /\ reqs'[r].response.body.error = "Validation failed"
          /\ (reqs[r].pc = "idle" /\ reqs'[r].response.status = 400)
             => users' = users /\ users_id_seq' = users_id_seq /\ reqs'[r].pc = "done"
      ]_vars

\* an empty firstName and a future dateOfBirth have both been refused and
\* the table holds exactly the rows of the calls that succeeded
C2_Witness ==
    /\ \E r \in Calls : ValidationFailed(r) /\ reqs[r].body.firstName = Str(<<>>)
    /\ \E r \in Calls : /\ ValidationFailed(r)
                         /\ reqs[r].body.firstName # Str(<<>>)
                         /\ DateParse(reqs[r].body.dateOfBirth) > now
    /\ Len(users) = Cardinality({r \in Calls : Succeeded(r)})

\* C3: a validation failure lists a message for every rule the input
\* violates, across all fields, in the one response.
C3_AllViolationsListed ==
    \A r \in Calls : ValidationFailed(r) =>
        \A m \in Range(userSchemaErrors(reqs[r].body)) :
            m \in Range(reqs[r].response.body.details)

\* C4: no call the validator accepted is refused by the table's constraints;
\* a validated call fails only when the database cannot be reached.
C4_ValidatedInputInsertable ==
    \A r \in Calls :
        (reqs[r].route = "check" /\ reqs[r].pc = "done" /\ reqs[r].response.status \notin {201, 400})
            => reqs[r].err = ConnectionError

\* a character the data model allows in a name
IsNameChar(c) == c \in Letters \/ c = " " \/ c = "-" \/ c = "'"

WellFormedName(s) ==
    /\ Len(s) >= 1 /\ Len(s) <= 50
    /\ s[1] \notin Whitespace /\ s[Len(s)] \notin Whitespace
    /\ \A i \in 1..Len(s) : IsNameChar(s[i])

\* C5: every persisted row has first and last names that are trimmed, 1 to 50
\* characters long, of letters, spaces, hyphens and apostrophes only.
C5_StoredNamesWellFormed ==
    \A i \in 1..Len(users) :
        WellFormedName(users[i].first_name) /\ WellFormedName(users[i].last_name)

\* C6: every age the pipeline computes for an accepted input, every
\* persisted row and every 201 response has age >= 0.
C6_AgeNonNegative ==
    /\ \A i \in 1..Len(users) : users[i].age >= 0
    /\ \A r \in Calls :
          /\ reqs[r].route = "check" => reqs[r].age >= 0 /\ reqs[r].params.age >= 0
          /\ Succeeded(r) => reqs[r].response.body.age >= 0

\* a person whose birth instant has only just passed is answered age 0
C6_Witness ==
    \E r \in Calls :
        /\ Succeeded(r) /\ reqs[r].response.body.age = 0
        /\ DateParse(reqs[r].body.dateOfBirth) + 24 > now
        /\ \E i \in 1..Len(users) : users[i].age = 0

Valid(r) == reqs[r].route = "check" /\ reqs[r].pc = "done" /\ reqs[r].response.status # 400

\* the row a 201 response names, when the table holds it
OwnRow(r) ==
    {i \in 1..Len(users) :
        /\ users[i].id = reqs[r].response.body.id
        /\ users[i].created_at = reqs[r].response.body.timestamp
        /\ users[i].first_name = reqs[r].params.first_name
        /\ users[i].last_name = reqs[r].params.last_name
        /\ users[i].age = reqs[r].response.body.age}

\* C7: two valid calls, however their steps interleave, both succeed with
\* distinct ids, each answered with the id and timestamp of its own row, and
\* statistics read after both count both rows (the database being reachable).
C7_ConcurrentCallsSucceed ==
    \A r, q \in Calls :
        (r # q /\ Valid(r) /\ Valid(q)
           /\ reqs[r].err # ConnectionError /\ reqs[q].err # ConnectionError)
        => /\ Succeeded(r) /\ Succeeded(q)
           /\ reqs[r].response.body.id # reqs[q].response.body.id
           /\ OwnRow(r) # {} /\ OwnRow(q) # {}
           /\ LET others == {i \in 1..Len(users) :
                                users[i].id \notin {reqs[r].response.body.id,
                                                    reqs[q].response.body.id}}
              IN  Statistics(StatsQuery(users)).totalUsers = Cardinality(others) + 2

\* the first k rows of the table
FirstRows(k) == SubSeq(users, 1, k)

EligibleIn(rows) == Cardinality({i \in 1..Len(rows) : rows[i].is_eligible})

IneligibleIn(rows) == Cardinality({i \in 1..Len(rows) : ~rows[i].is_eligible})

\* st carries the counts of rows, all of them fully appended
CountsOf(st, rows) ==
    /\ st.totalUsers = Len(rows)
    /\ st.eligibleUsers = EligibleIn(rows)
    /\ st.ineligibleUsers = IneligibleIn(rows)
    /\ st.eligibleUsers + st.ineligibleUsers = st.totalUsers
    /\ st.totalUsers >= 0 /\ st.eligibleUsers >= 0 /\ st.ineligibleUsers >= 0

\* h hundredths is the mean age of rows rounded to two places (0 for no rows)
RoundedMeanOf(h, rows) ==
    IF rows = <<>> THEN h = 0
    ELSE /\ 2 * h * Len(rows) <= 200 * SumAge(rows) + Len(rows)
         /\ 200 * SumAge(rows) + Len(rows) < 2 * (h + 1) * Len(rows)

\* C8 (as amended): every statistics response, also one computed while
\* appends are in progress, is the aggregate of one set of fully appended
\* rows: the counts add up and are non-negative, and averageAge is the mean
\* of exactly those rows rounded to two decimal places.
C8_SnapshotConsistent ==
    \A r \in Calls : StatsAnswered(r) =>
        LET st == reqs[r].response.body.statistics
        IN  \E k \in 0..Len(users) :
                /\ CountsOf(st, FirstRows(k))
                /\ ~st.averageAge.nan
                /\ RoundedMeanOf(st.averageAge.v, FirstRows(k))

\* C8 (as claimed): averageAge is the mean itself of the rows counted.
C8_AverageIsExactMean ==
    \A r \in Calls : StatsAnswered(r) =>
        LET st == reqs[r].response.body.statistics
        IN  \E k \in 0..Len(users) :
                /\ CountsOf(st, FirstRows(k))
                /\ ~st.averageAge.nan
                /\ st.averageAge.v * k = 100 * SumAge(FirstRows(k))

\* statistics over some rows were answered while an earlier call was still
\* waiting for its INSERT, and the table has grown since the snapshot
C8_Witness ==
    \E r, q \in Calls :
        /\ StatsAnswered(r)
        /\ reqs[r].response.body.statistics.totalUsers >= 1
        /\ reqs[r].response.body.statistics.totalUsers < Len(users)
        /\ q < r /\ reqs[q].route = "check" /\ reqs[q].pc = "query"

\* C9: the step in which a call succeeds moves the statistics a read would
\* return right before and right after it by exactly one record: totalUsers
\* by 1 and, by the eligibility answered, one of eligibleUsers and
\* ineligibleUsers by 1, the other unchanged.
C9_AppendThenStats ==
    [][\A r \in Calls :
          (reqs[r].pc = "query" /\ reqs'[r].route = "check"
              /\ reqs'[r].response.status = 201)
          => LET before == Statistics(StatsQuery(users))
                 after  == Statistics(StatsQuery(users'))
                 e      == IF reqs'[r].response.body.eligible THEN 1 ELSE 0
             IN  /\ after.totalUsers = before.totalUsers + 1
                 /\ after.eligibleUsers = before.eligibleUsers + e
                 /\ after.ineligibleUsers = before.ineligibleUsers + (1 - e)
      ]_vars

\* statistics answered right after a successful call, counting its row
C9_Witness ==
    \E r, q \in Calls :
        /\ Succeeded(r) /\ StatsAnswered(q) /\ r < q
        /\ reqs[q].response.body.statistics.totalUsers = Len(users)
        /\ reqs[q].response.body.statistics.eligibleUsers = EligibleIn(users)
        /\ Len(users) >= 1

\* C10: statistics over the empty table are answered 200 with all three
\* counts 0 and averageAge the number 0, neither null nor NaN.
C10_EmptyStats ==
    \A r \in Calls :
        /\ (reqs[r].route = "stats" /\ reqs[r].pc = "done" /\ reqs[r].err = NoError)
           => reqs[r].response.status = 200
        /\ (StatsAnswered(r) /\ reqs[r].result.rows[1].total_users = Text(<<"0">>))
           => reqs[r].response.body.statistics =
                 [totalUsers |-> 0, eligibleUsers |-> 0, ineligibleUsers |-> 0,
                  averageAge |-> Number(0)]

\* statistics were answered from the empty table
C10_Witness ==
    \E r \in Calls :
        /\ StatsAnswered(r)
        /\ reqs[r].result.rows[1].average_age = NullText
        /\ reqs[r].response.body.statistics.totalUsers = 0

\* a call whose query was rejected
StorageFailed(r) == reqs[r].pc = "done" /\ reqs[r].err # NoError

\* C11: every storage failure, of either route and whatever the underlying
\* error says, is answered with the same body, and that body never carries
\* the underlying error's message.
C11_FailureBodyGeneric ==
    \A r \in Calls, q \in Calls :
        (StorageFailed(r) /\ StorageFailed(q))
        => /\ reqs[r].response.body = reqs[q].response.body
           /\ reqs[r].response.body.error # reqs[r].err.message

\* a finished checkEligibility call whose INSERT was rejected
StoreFailed(req) == req.route = "check" /\ req.pc = "done" /\ req.err # NoError

\* C12: a checkEligibility call whose store operation fails is answered 500
\* with success = false and nothing but the error text (no id, age, eligible,
\* message or timestamp), and that answer is final: no other response, and
\* so no 201, follows it.
C12_StoreFailureSingle500 ==
    [][\A r \in Calls :
          /\ StoreFailed(reqs'[r])
             => /\ reqs'[r].response.status = 500
                /\ DOMAIN reqs'[r].response.body = {"success", "error"}
                /\ reqs'[r].response.body.success = FALSE
          /\ StoreFailed(reqs[r]) => reqs'[r] = reqs[r]]_vars

\* one call failed on an unreachable database and another on a constraint,
\* and a later call was handled after them
C12_Witness ==
    \E r \in Calls, q \in Calls, s \in Calls :
        /\ StoreFailed(reqs[r]) /\ reqs[r].err = ConnectionError
        /\ StoreFailed(reqs[q]) /\ reqs[q].err.name = "error"
        /\ s > r /\ s > q /\ reqs[s].pc = "done"

\* the calls answered 201
Answered201(rs) == {r \in DOMAIN rs : rs[r].response.status = 201}

\* C13: the step that ends a checkEligibility call in 201 appends exactly one
\* record, the one the response names; a step that ends it in a validation or
\* storage failure appends none; the table always holds as many records as
\* there are 201 responses.
C13_OneRecordPerSuccess ==
    [][/\ \A r \in Calls :
            (reqs[r].pc # "done" /\ reqs'[r].pc = "done" /\ reqs'[r].route = "check")
            => IF reqs'[r].response.status = 201
               THEN /\ Len(users') = Len(users) + 1
                    /\ SubSeq(users', 1, Len(users)) = users
                    /\ users'[Len(users')].id = reqs'[r].response.body.id
               ELSE users' = users
       /\ Len(users') = Cardinality(Answered201(reqs'))]_vars

\* one call succeeded, one failed validation and one failed on the store
C13_Witness ==
    /\ \E r \in Calls : Succeeded(r)
    /\ \E r \in Calls : ValidationFailed(r)
    /\ \E r \in Calls : StoreFailed(reqs[r])
    /\ Len(users) = 1

\* C14: a call issues at most one query (none when validation fails), and a
\* rejected query ends the call at once with a failure response: no call is
\* ever waiting on a second attempt.
C14_NoRetry ==
    \A r \in Calls :
        /\ reqs[r].queries <= 1
        /\ reqs[r].pc = "query" => (reqs[r].queries = 1 /\ reqs[r].err = NoError)
        /\ ValidationFailed(r) => reqs[r].queries = 0
        /\ StorageFailed(r) => (reqs[r].queries = 1 /\ reqs[r].response.status >= 500)
        /\ (Succeeded(r) \/ StatsAnswered(r)) => reqs[r].queries = 1

\* an append and an aggregate were each rejected and answered
C14_Witness ==
    \E r \in Calls, q \in Calls :
        /\ StorageFailed(r) /\ reqs[r].route = "check" /\ reqs[r].queries = 1
        /\ StorageFailed(q) /\ reqs[q].route = "stats" /\ reqs[q].queries = 1

\* C15: no step of any route removes or alters a persisted record: every
\* record stays at its place with its id, names, date of birth, age,
\* eligibility and creation time, also once the person has grown older.
C15_AppendOnly ==
    [][/\ Len(users') >= Len(users)
       /\ \A i \in 1..Len(users) : users'[i] = users[i]]_vars

\* a record of age 17 is still held as it was after the person turned 18
\* and a probe or the statistics were answered
C15_Witness ==
    /\ Len(users) = 1
    /\ users[1].age = 17 /\ users[1].created_at < now
    /\ \E r \in Calls :
          /\ Succeeded(r) /\ reqs[r].response.body.id = users[1].id
          /\ calculateAge(DateParse(reqs[r].body.dateOfBirth)) = 18
    /\ \E r \in Calls : reqs[r].route \in {"health", "ready", "stats"} /\ reqs[r].pc = "done"

\* C16: a new record's id is larger than every id the sequence has handed out
\* before, to records and to appends that failed alike; so the ids of the
\* table are distinct and increase in the order of the appends, and no two
\* 201 responses name the same id.
C16_IdsUniqueIncreasing ==
    [][/\ users_id_seq' >= users_id_seq
       /\ \A i \in 1..Len(users') :
             /\ i > Len(users) => users'[i].id > users_id_seq
             /\ users'[i].id <= users_id_seq'
             /\ \A j \in 1..Len(users') : i < j => users'[i].id < users'[j].id
       /\ \A r \in Calls, q \in Calls :
             (r # q /\ reqs'[r].response.status = 201 /\ reqs'[q].response.status = 201)
             => reqs'[r].response.body.id # reqs'[q].response.body.id]_vars

\* an append failed between two that succeeded, and its id was not given again
C16_Witness ==
    /\ Len(users) = 2
    /\ users[2].id > users[1].id + 1
    /\ \E r \in Calls : StoreFailed(reqs[r]) /\ reqs[r].err.name = "error"

\* civil date a is earlier in the year than civil date b
MonthDayBefore(a, b) == a.m < b.m \/ (a.m = b.m /\ a.d < b.d)

\* civil date a is an earlier day than civil date b
CivilBefore(a, b) == a.y < b.y \/ (a.y = b.y /\ MonthDayBefore(a, b))

\* whole years from the civil date birth to the civil date asOf
CivilAge(birth, asOf) ==
    (asOf.y - birth.y) - (IF MonthDayBefore(asOf, birth) THEN 1 ELSE 0)

\* C17: calculateAge called with a birth date not after the current date
\* returns the year difference of the two civil dates, the submitted one and
\* the current one, less one exactly when the current month and day precede
\* the birth month and day.
C17_AgeOfCivilDates ==
    (ageCall.dateOfBirth.iso /\ ~CivilBefore(LocalDate(ageCall.asOf), ageCall.dateOfBirth))
    => /\ ~ageCall.outcome.threw
       /\ ageCall.outcome.value =
             [nan |-> FALSE, v |-> CivilAge(ageCall.dateOfBirth, LocalDate(ageCall.asOf))]

\* on the civil date to, the day after the civil date from, the month and
\* day of the year first reach (or, for a Feb 29 birth in a common year, pass)
\* those of the civil date birth
FirstReaches(birth, from, to) ==
    /\ ~MonthDayBefore(to, birth)
    /\ (to.y > from.y \/ MonthDayBefore(from, birth))

\* C18: as the current date advances by a day, the age of a fixed birth date
\* not after it never decreases and never grows by more than 1, and it grows
\* by 1 exactly on the day the current month and day first reach those of
\* the birth date in that year.
C18_AgeStepsOnBirthday ==
    [][now' = now + 24 =>
          \A b \in {x \in AgeInputs : x.iso /\ ~CivilBefore(LocalDate(now), x)} :
              LET before == CalculateAgeCall(b).value.v
                  after  == CalculateAgeCall(b).value.v'
              IN  /\ after >= before
                  /\ after <= before + 1
                  /\ (after = before + 1) <=> FirstReaches(b, LocalDate(now), LocalDate(now'))]_vars

\* C19: calculateAge called with a birth date after the current instant
\* throws 'Date of birth cannot be in the future' and returns no number, so
\* never a negative one.
C19_FutureDateThrows ==
    (ageCall.dateOfBirth.iso /\ DateParse(ageCall.dateOfBirth) > ageCall.asOf)
    => /\ ageCall.outcome.threw
       /\ ageCall.outcome.message = "Date of birth cannot be in the future"

\* C20: calculateAge called with text that is no calendar date throws
\* 'Invalid date of birth' and returns no number.
C20_InvalidDateThrows ==
    (ageCall.dateOfBirth.t = "string" /\ ~ageCall.dateOfBirth.iso)
    => /\ ageCall.outcome.threw
       /\ ageCall.outcome.message = "Invalid date of birth"

\* C21: a call with firstName '' and the other fields valid is answered 400
\* 'Validation failed' with the rule message of the names' minimum length
\* among the details.
C21_EmptyFirstNameMessage ==
    \A r \in Calls :
        (/\ reqs[r].route = "check" /\ reqs[r].pc = "done"
         /\ reqs[r].body.firstName = Str(<<>>)
         /\ lastNameErrors(reqs[r].body.lastName) = <<>>
         /\ reqs[r].body.dateOfBirth.iso)
        => /\ reqs[r].response.status = 400
           /\ reqs[r].response.body.error = "Validation failed"
           /\ "First name must be at least 1 character long"
                 \in Range(reqs[r].response.body.details)

\* a check-eligibility call the validator let through
Accepted(r) == reqs[r].route = "check" /\ ~ValidationFailed(r)

\* a name as the specification admits it: a string whose length after
\* trimming is 1 to 50 and whose characters are letters, spaces, hyphens and
\* apostrophes
NameAdmitted(x) ==
    /\ x.t = "string"
    /\ Len(trim(x.v)) >= 1 /\ Len(trim(x.v)) <= 50
    /\ \A i \in 1..Len(x.v) : IsNameChar(x.v[i])

\* C22: with the other fields valid, the validator lets a call through
\* exactly when its firstName, and likewise its lastName, is present, is 1 to
\* 50 characters long after trimming and has only letters, spaces, hyphens
\* and apostrophes.
C22_NameAcceptedIffAdmitted ==
    \A r \in Calls :
        (reqs[r].route = "check" /\ reqs[r].body.dateOfBirth = IsoDate(2006, 3, 1))
        => (Accepted(r) <=> (NameAdmitted(reqs[r].body.firstName)
                             /\ NameAdmitted(reqs[r].body.lastName)))

\* year, month and day name a day of the calendar
IsCalendarDate(x) == CivilFromDays(DaysFromCivil(x.y, x.m, x.d)) = [y |-> x.y, m |-> x.m, d |-> x.d]

\* the current date, read in UTC as the validator compares
CurrentDate == CivilFromDays(now \div 24)

\* C23: with valid names, the validator lets a call through exactly when its
\* dateOfBirth is present, is an ISO date naming a day of the calendar and is
\* not later than the current date (the current date itself is let through);
\* a later date is answered with 'Date of birth cannot be in the future'.
C23_DateAcceptedIffPastCalendarDate ==
    \A r \in Calls :
        (/\ reqs[r].route = "check"
         /\ reqs[r].body.firstName = Str(Jo) /\ reqs[r].body.lastName = Str(Jo))
        => LET dob == reqs[r].body.dateOfBirth
           IN  /\ Accepted(r) <=> (/\ dob.iso
                                   /\ IsCalendarDate(dob)
                                   /\ ~CivilBefore(CurrentDate, dob))
               /\ (dob.iso /\ IsCalendarDate(dob) /\ CivilBefore(CurrentDate, dob))
                  => reqs[r].response.body.details
                        = <<"Date of birth cannot be in the future">>

\* C24: a checkEligibility call that ends without a validation or storage
\* failure is answered 201, with 'You are eligible for the program' exactly
\* when eligible is true and 'You are not eligible for the program' exactly
\* when it is false, and with the id and age of the record stored for it.
C24_SuccessResponseMatchesRecord ==
    \A r \in Calls :
        (reqs[r].route = "check" /\ reqs[r].pc = "done"
            /\ reqs[r].err = NoError /\ reqs[r].response.status # 400)
        => LET b == reqs[r].response.body
           IN  /\ reqs[r].response.status = 201
               /\ b.eligible
                  => b.message = "You are eligible for the program"
               /\ ~b.eligible
                  => b.message = "You are not eligible for the program"
               /\ \E i \in 1..Len(users) :
                     /\ users[i].id = b.id
                     /\ users[i].age = b.age
                     /\ users[i].is_eligible = b.eligible

\* one call was answered eligible at age 18 and another not eligible
C24_Witness ==
    \E r \in Calls, q \in Calls :
        /\ Succeeded(r) /\ reqs[r].response.body.eligible /\ reqs[r].response.body.age = 18
        /\ Succeeded(q) /\ ~reqs[q].response.body.eligible

\* a request to a route under /api
OnApi(r) == reqs[r].route \in {"check", "stats"}

\* C25: a request under /api is answered by its handler exactly when it is
\* one of the first 100 of its address in the window, and no two requests of
\* an address have the same place in a window, so at most 100 are served;
\* every further one is answered 'Too many requests', issues no query and
\* stores nothing; /health and /ready are never counted or refused.
C25_RateLimit ==
    /\ \A r \in Calls :
          /\ OnApi(r) =>
                /\ reqs[r].rateLimit.current >= 1
                /\ reqs[r].rateLimit.current <= 100 <=> reqs[r].response # TooManyRequests
                /\ reqs[r].rateLimit.current > 100 =>
                      /\ reqs[r].pc = "done" /\ reqs[r].queries = 0
                      /\ reqs[r].response.status = 429
          /\ reqs[r].route \in {"health", "ready"} =>
                /\ reqs[r].rateLimit.current = 0
                /\ reqs[r].response.status # 429
    /\ \A r \in Calls, q \in Calls :
          (r # q /\ OnApi(r) /\ OnApi(q) /\ reqs[r].ip = reqs[q].ip
               /\ reqs[r].rateLimit.window = reqs[q].rateLimit.window)
          => reqs[r].rateLimit.current # reqs[q].rateLimit.current
    /\ Len(users) <= Cardinality({r \in Calls :
                                      reqs[r].route = "check" /\ reqs[r].rateLimit.current <= 100})

\* an address was served its 100th request of a window and refused its
\* 101st, a POST that stored nothing
C25_Witness ==
    \E r \in Calls, q \in Calls :
        /\ reqs[r].rateLimit.current = 100 /\ reqs[r].response.status = 201
        /\ reqs[q].ip = reqs[r].ip /\ reqs[q].route = "check"
        /\ reqs[q].rateLimit.window = reqs[r].rateLimit.window
        /\ reqs[q].rateLimit.current = 101 /\ reqs[q].response = TooManyRequests
        /\ Len(users) = 1

\* the answer the probe of a route owes to the outcome of its SELECT 1
ProbeAnswerOk(req) ==
    LET ok == req.err = NoError
        b  == req.response.body
    IN  /\ req.response.status = (IF ok THEN 200 ELSE 503)
        /\ "success" \notin DOMAIN b
        /\ IF req.route = "health"
           THEN /\ b.status = (IF ok THEN "healthy" ELSE "unhealthy")
                /\ b.database = (IF ok THEN "connected" ELSE "disconnected")
           ELSE b.status = (IF ok THEN "ready" ELSE "not ready")

\* C26: /health answers 200 'healthy', 'connected' exactly when its SELECT 1
\* succeeds and 503 'unhealthy', 'disconnected' exactly when it fails; /ready
\* answers 200 'ready' or 503 'not ready' likewise; a failed probe is
\* answered by the probe's own handler, not by the error middleware, and no
\* step of a probe touches the table.
C26_ProbesAnswerThemselves ==
    [][\A r \in Calls :
          (reqs'[r].route \in {"health", "ready"} /\ reqs'[r] # reqs[r])
          => /\ users' = users /\ users_id_seq' = users_id_seq
             /\ reqs'[r].pc = "done" => ProbeAnswerOk(reqs'[r])]_vars

\* a health probe failed and another probe succeeded, neither counted by the
\* limiter
C26_Witness ==
    \E r \in Calls, q \in Calls :
        /\ reqs[r].route = "health" /\ reqs[r].response.status = 503
        /\ reqs[q].route \in {"health", "ready"} /\ reqs[q].response.status = 200
        /\ reqs[q].rateLimit.current = 0

\* C27: the error middleware answers a PostgreSQL error (name 'error' with a
\* code) 409 'Duplicate entry' for 23505, 400 'Foreign key constraint
\* violation' for 23503, 400 'Required field missing' for 23502 and 500
\* 'Database error' for any other code; it answers any other error with the
\* error's statusCode, or 500 without one, and the error's message, or
\* 'Internal Server Error' when empty; success is false in every body.
C27_ErrorMapping ==
    \A r \in Calls :
        (reqs[r].pc = "done" /\ reqs[r].err # NoError /\ reqs[r].route \in {"check", "stats", "unknown"})
        => LET err == reqs[r].err
               res == reqs[r].response
           IN  /\ res.body.success = FALSE
               /\ IF err.name = "error" /\ err.code # ""
                  THEN <<res.status, res.body.error>> =
                          (IF err.code = "23505" THEN <<409, "Duplicate entry">>
                           ELSE IF err.code = "23503"
                           THEN <<400, "Foreign key constraint violation">>
                           ELSE IF err.code = "23502" THEN <<400, "Required field missing">>
                           ELSE <<500, "Database error">>)
                  ELSE /\ err.statusCode # 0 => res.status = err.statusCode
                       /\ err.statusCode = 0 => res.status = 500
                       /\ err.message # "" => res.body.error = err.message
                       /\ err.message = "" => res.body.error = "Internal Server Error"

\* a duplicate key was answered 409 and an error without message or
\* statusCode was answered 500 'Internal Server Error'
C27_Witness ==
    \E r \in Calls, q \in Calls :
        /\ reqs[r].err.name = "error" /\ reqs[r].err.code = "23505"
        /\ reqs[r].response.status = 409
        /\ reqs[q].err.name = "Error" /\ reqs[q].err.message = "" /\ reqs[q].err.statusCode = 0
        /\ reqs[q].response.body.error = "Internal Server Error"

-----------------------------------------------------------------------------
\* C28: one form submission, with the retry of its POST, leaves at most one
\* determination record in the store: the table never holds more records
\* than the form has had submissions.
C28_OneRecordPerSubmission ==
    Len(users) <= Len(eligibilityComponent.subscriptions)

\* C29: loading is true exactly while a request started by onSubmit still
\* awaits its response or error.
C29_LoadingWhilePending ==
    eligibilityComponent.loading <=>
        \E s \in DOMAIN eligibilityComponent.subscriptions :
            eligibilityComponent.subscriptions[s].state = "waiting"

\* the charts of a type the component has created and not destroyed
LiveCharts(type) ==
    { i \in DOMAIN statsComponent.charts :
        statsComponent.charts[i].type = type /\ ~statsComponent.charts[i].destroyed }

\* C30: once ngOnDestroy has run no chart of the component is left
\* undestroyed, whether created before or after it, and at any time at most
\* one pie chart and one bar chart are live.
C30_NoChartAfterDestroy ==
    /\ statsComponent.lifecycle = "destroyed" =>
          LiveCharts("doughnut") \cup LiveCharts("bar") = {}
    /\ Cardinality(LiveCharts("doughnut")) <= 1
    /\ Cardinality(LiveCharts("bar")) <= 1

====
